---- MODULE Spec2Model ----
(***************************************************************************)
(* Model of the deep-research controller (research_logic.py) and of the   *)
(* language-model helpers it calls (utils/llm.py), with the search and    *)
(* scraping collaborators (utils/search.py, utils/scraper.py).            *)
(*                                                                         *)
(* Text is a sequence of one-character strings; NL is the line break and  *)
(* SP a blank.  A URL, a finding and a direction are opaque strings.      *)
(***************************************************************************)
EXTENDS Integers, Sequences, FiniteSets, TLC

VARIABLES
    pc,                     \* position of perform_deep_research
    initial_query,          \* argument
    depth,                  \* argument
    breadth,                \* argument
    existing_learnings,     \* argument (after the None default)
    i,                      \* number of loop iterations started
    all_learnings,
    visited_urls,
    all_sources,
    final_directions,
    search_queries,
    results,                \* the search gather: one slot per search task
    urls_to_scrape,
    scraped_results,        \* the scrape gather: one slot per scrape task
    summary_and_directions, \* last value returned by the Synthesizer
    expand_calls,           \* calls of llm.generate_search_queries
    synth_calls,            \* calls of llm.summarize_and_find_directions
    scrape_calls,           \* URLs passed to scraper.scrape_content, in order
    raised_from,            \* the call whose exception left the coroutine
    returned,               \* the tuple returned to the caller
    current_query_context,
    prompt_contexts,        \* the contexts handed to the llm.py calls so far
    scrape_log,             \* by URL, whether its scrape task handed back text
    synth_log,              \* the learnings the Synthesizer returned, in order
    runs,                   \* two invocations side by side: their locals
    heap,                   \* and the list objects they hold references to
    fn_call,                \* a single call of an llm.py function, and
    fn_out                  \* its result

vars == <<pc, initial_query, depth, breadth, existing_learnings, i,
          all_learnings, visited_urls, all_sources, final_directions,
          search_queries, results, urls_to_scrape, scraped_results,
          summary_and_directions, expand_calls, synth_calls, scrape_calls,
          raised_from, returned, current_query_context, prompt_contexts,
          scrape_log, synth_log, runs, heap, fn_call, fn_out>>

ctl_vars == <<pc, initial_query, depth, breadth, existing_learnings, i,
              all_learnings, visited_urls, all_sources, final_directions,
              search_queries, results, urls_to_scrape, scraped_results,
              summary_and_directions, expand_calls, synth_calls,
              scrape_calls, raised_from, returned, current_query_context,
              prompt_contexts, scrape_log, synth_log>>

fn_vars == <<fn_call, fn_out>>

run_vars == <<runs, heap>>

----------------------------------------------------------------------------
(* Bounds of the model *)

MaxDepth == 2
MaxBreadth == 2
MaxRaw == 3
MaxText == 6
MaxLimit == 3

(* Program constants *)

NumResults == 2

----------------------------------------------------------------------------
(* Values *)

NL == "\n"
SP == " "
Chars == {"a", "b", SP, NL}

URLS == {"u1", "u2"}
Malformed == "malformed"

Min(a, b) == IF a <= b THEN a ELSE b

SeqsUpTo(S, n) == UNION {[1..k -> S] : k \in 0..n}

Range(s) == {s[k] : k \in 1..Len(s)}

RECURSIVE Flatten(_)
Flatten(ss) ==
    IF ss = <<>> THEN <<>> ELSE Head(ss) \o Flatten(Tail(ss))

----------------------------------------------------------------------------
(* utils/llm.py *)

(* A text the model answers with: its characters and what json.loads makes
   of them.  The empty text is not JSON. *)
JsonInvalid == [json |-> "invalid"]
JsonScalar == [json |-> "scalar"]
JsonArray == [json |-> "array"]
JsonObject(l, d) == [json |-> "object", learnings |-> l, directions |-> d]

(* The value of a field of a JSON object, as dict.get and isinstance see it *)
Missing == [type |-> "NoneType"]
NotList == [type |-> "str"]
ListOf(items) == [type |-> "list", items |-> items]

Text(chars, json) == [chars |-> chars, json |-> json]
Plain(chars) == Text(chars, JsonInvalid)
EmptyText == Plain(<<>>)

(* What the Gemini client does on one generate_content_async call. *)
ApiText(t) == [kind |-> "text", text |-> t]
ApiException == [kind |-> "exception"]
ApiNoParts == [kind |-> "no_parts", candidates |-> 1]
ApiNoCandidates == [kind |-> "no_parts", candidates |-> 0]

Raise == [raised |-> TRUE]
Return(v) == [raised |-> FALSE, value |-> v]

(* _call_gemini_api: the text of the response, "" when the response has no
   parts, and any exception re-raised.  Logging the empty response reads
   response.candidates[0], which itself raises when there is no candidate. *)
call_gemini_api(api) ==
    CASE api.kind = "exception" -> Raise
      [] api.kind = "text" -> Return(api.text)
      [] api.kind = "no_parts" ->
            IF api.candidates = 0 THEN Raise ELSE Return(EmptyText)

(* str.split('\n') *)
RECURSIVE SplitLines(_)
SplitLines(t) ==
    IF \A k \in 1..Len(t) : t[k] # NL
    THEN <<t>>
    ELSE LET k == CHOOSE n \in 1..Len(t) :
                      t[n] = NL /\ \A m \in 1..(n - 1) : t[m] # NL
         IN  <<SubSeq(t, 1, k - 1)>> \o SplitLines(SubSeq(t, k + 1, Len(t)))

Whitespace == {SP, NL}

(* str.strip() *)
RECURSIVE LStrip(_)
LStrip(t) ==
    IF t # <<>> /\ Head(t) \in Whitespace THEN LStrip(Tail(t)) ELSE t

RECURSIVE RStrip(_)
RStrip(t) ==
    IF t # <<>> /\ t[Len(t)] \in Whitespace
    THEN RStrip(SubSeq(t, 1, Len(t) - 1))
    ELSE t

Strip(t) == RStrip(LStrip(t))

(* [f(x) for x in xs if x.strip()] with f = strip *)
RECURSIVE StripNonBlank(_)
StripNonBlank(ls) ==
    IF ls = <<>> THEN <<>>
    ELSE IF Strip(Head(ls)) # <<>>
         THEN <<Strip(Head(ls))>> \o StripNonBlank(Tail(ls))
         ELSE StripNonBlank(Tail(ls))

(* xs[:n] forgotten: every query is kept *)
SliceToAll(xs, n) == xs

(* xs[:n] of Python, n of either sign *)
SliceTo(xs, n) ==
    IF n >= 0
    THEN SubSeq(xs, 1, Min(n, Len(xs)))
    ELSE SubSeq(xs, 1, IF Len(xs) + n > 0 THEN Len(xs) + n ELSE 0)

ParseQueries(response_text, n) ==
    SliceTo(StripNonBlank(SplitLines(response_text.chars)), n)

(* generate_search_queries, given what the API does *)
generate_search_queries(api, n) ==
    LET r == call_gemini_api(api)
    IN  IF r.raised THEN Raise ELSE Return(ParseQueries(r.value, n))

IsList(v) == v.type = "list"

EmptySummary == [learnings |-> <<>>, directions |-> <<>>]

(* The try block without its handler of json.JSONDecodeError *)
ParseSummaryNoHandler(response_text) ==
    LET result_json == response_text.json
    IN  IF result_json.json = "invalid"
        THEN Raise
        ELSE IF result_json.json = "object"
                /\ IsList(result_json.learnings)
                /\ IsList(result_json.directions)
             THEN Return([learnings |-> result_json.learnings.items,
                          directions |-> result_json.directions.items])
             ELSE Return(EmptySummary)

(* The try block of summarize_and_find_directions: json.loads, the check of
   the structure, and the handlers, each of which returns. *)
ParseSummary(response_text) ==
    LET result_json == response_text.json
    IN  IF result_json.json = "invalid"
        THEN Return(EmptySummary)
        ELSE IF result_json.json = "object"
                /\ IsList(result_json.learnings)
                /\ IsList(result_json.directions)
             THEN Return([learnings |-> result_json.learnings.items,
                          directions |-> result_json.directions.items])
             ELSE Return(EmptySummary)

(* summarize_and_find_directions: the API call is made before the try, so
   its exception is not caught. *)
summarize_and_find_directions(api) ==
    LET r == call_gemini_api(api)
    IN  IF r.raised THEN Raise ELSE ParseSummary(r.value)

NoInformationReport(query) == [template |-> "no_information", query |-> query]
NotGeneratedReport(learnings) ==
    [template |-> "not_generated",
     bullets |-> [k \in 1..Len(learnings) |-> <<"- ", learnings[k]>>]]
ModelReport(t) == [template |-> "model", text |-> t]

(* generate_final_report without its test of the empty list *)
generate_final_report_unguarded(query, learnings, api) ==
    LET report == call_gemini_api(api)
    IN  IF report.raised THEN [raised |-> TRUE, called |-> TRUE]
        ELSE [raised |-> FALSE, called |-> TRUE,
              value |-> IF report.value.chars # <<>>
                        THEN ModelReport(report.value)
                        ELSE NotGeneratedReport(learnings)]

(* generate_final_report, given what the API does if it is called; called
   tells whether the model was called. *)
generate_final_report(query, learnings, api) ==
    IF learnings = <<>>
    THEN [raised |-> FALSE, called |-> FALSE,
          value |-> NoInformationReport(query)]
    ELSE LET report == call_gemini_api(api)
         IN  IF report.raised THEN [raised |-> TRUE, called |-> TRUE]
             ELSE [raised |-> FALSE, called |-> TRUE,
                   value |-> IF report.value.chars # <<>>
                             THEN ModelReport(report.value)
                             ELSE NotGeneratedReport(learnings)]

----------------------------------------------------------------------------
(* utils/search.py *)

ProviderException == [kind |-> "exception"]
ProviderResults(entries) == [kind |-> "results", entries |-> entries]

WellFormedEntry(r) == r # Malformed

(* The for loop of find_urls without its break: every href is collected *)
RECURSIVE CollectHrefsNoBreak(_, _, _)
CollectHrefsNoBreak(entries, urls, num_results) ==
    IF entries = <<>> THEN urls
    ELSE IF WellFormedEntry(Head(entries))
         THEN CollectHrefsNoBreak(Tail(entries), Append(urls, Head(entries)),
                                  num_results)
         ELSE CollectHrefsNoBreak(Tail(entries), urls, num_results)

(* The for loop of find_urls over the provider's entries *)
RECURSIVE CollectHrefs(_, _, _)
CollectHrefs(entries, urls, num_results) ==
    IF entries = <<>> THEN urls
    ELSE IF WellFormedEntry(Head(entries))
         THEN LET urls1 == Append(urls, Head(entries))
              IN  IF Len(urls1) >= num_results
                  THEN urls1
                  ELSE CollectHrefs(Tail(entries), urls1, num_results)
         ELSE CollectHrefs(Tail(entries), urls, num_results)

find_urls(provider, num_results) ==
    IF provider.kind = "exception"
    THEN <<>>
    ELSE CollectHrefs(provider.entries, <<>>, num_results)

(* find_urls without its except clause: the provider's exception leaves it *)
find_urls_unhandled(provider, num_results) ==
    IF provider.kind = "exception"
    THEN Raise
    ELSE Return(CollectHrefs(provider.entries, <<>>, num_results))

(* A call of find_urls as its caller sees it: lines 24-40 always reach the
   return of line 40. *)
find_urls_call(provider, num_results) ==
    Return(find_urls(provider, num_results))

----------------------------------------------------------------------------
(* utils/scraper.py *)

RequestError == [kind |-> "request_error"]
ParseError == [kind |-> "parse_error"]
Response(status, html, body, text) ==
    [kind |-> "response", status |-> status, html |-> html, body |-> body,
     text |-> text]

NoneResult == [kind |-> "None"]
Document(url, text) == [kind |-> "dict", url |-> url, text |-> text]

(* response.raise_for_status() raises for every status outside 200..299 *)
IsSuccess(status) == status >= 200 /\ status <= 299

(* scrape_content without the test of line 61 *)
scrape_content_keeps_empty(url, fetch) ==
    IF fetch.kind \in {"request_error", "parse_error"} THEN NoneResult
    ELSE IF ~IsSuccess(fetch.status) THEN NoneResult
    ELSE IF ~fetch.html THEN NoneResult
    ELSE IF ~fetch.body THEN NoneResult
    ELSE Document(url, fetch.text)

(* scrape_content: every except clause returns None, as do the tests of the
   content type, of the body element and of the extracted text. *)
scrape_content(url, fetch) ==
    IF fetch.kind \in {"request_error", "parse_error"} THEN NoneResult
    ELSE IF ~IsSuccess(fetch.status) THEN NoneResult
    ELSE IF ~fetch.html THEN NoneResult
    ELSE IF ~fetch.body THEN NoneResult
    ELSE IF fetch.text = <<>> THEN NoneResult
    ELSE Document(url, fetch.text)

----------------------------------------------------------------------------
(* main.py and utils/file_utils.py: the /research endpoint *)

(* The error field of a ResearchResponse *)
NoError == [type |-> "NoneType"]
ErrorMessage == [type |-> "str"]

ResultPath == "results/result.md"

ResearchResponse(result_file, error) ==
    [result_file |-> result_file, error |-> error]

(* What the caller gets and what is in the result file afterwards: a
   response, or the exception that left the handler *)
Responded(response, written) ==
    [raised |-> FALSE, response |-> response, written |-> written]
Unhandled(written) == [raised |-> TRUE, written |-> written]

(* What the file system and the collaborators do during one request:
   files is generate_result_files and setup_file_logging (lines 60, 63),
   research is perform_deep_research, report is the Gemini call of
   main.generate_final_report, save is save_research_result. *)
RequestEnvs ==
    [files : {"ok", "makedirs_raises", "log_open_raises"},
     research : {"returns", "raises"},
     report : {"text", "raises", "empty"},
     save : {"ok", "open_raises", "write_raises"}]

(* main.generate_final_report: every exception, and an empty response, ends
   in the except clause of lines 141-143, which returns a message *)
main_generate_final_report(report) ==
    IF report = "text" THEN <<"r">> ELSE <<"e">>

(* save_research_result: open(result_file, 'w') creates the file, write
   fills it *)
save_research_result(save) ==
    IF save = "ok" THEN [raised |-> FALSE, written |-> "complete"]
    ELSE IF save = "open_raises" THEN [raised |-> TRUE, written |-> "nothing"]
    ELSE [raised |-> TRUE, written |-> "partial"]

(* run_research: lines 60 and 63 come before the try of line 66 *)
run_research(env) ==
    IF env.files # "ok" THEN Unhandled("nothing")
    ELSE IF env.research = "raises"
    THEN Responded(ResearchResponse("", ErrorMessage), "nothing")
    ELSE LET final_report == main_generate_final_report(env.report)
             saved == save_research_result(env.save)
         IN  IF final_report = <<>>
             THEN Responded(ResearchResponse("", ErrorMessage), "nothing")
             ELSE IF saved.raised
             THEN Responded(ResearchResponse("", ErrorMessage), saved.written)
             ELSE Responded(ResearchResponse(ResultPath, NoError),
                            saved.written)

----------------------------------------------------------------------------
(* research_logic.py: the steps of perform_deep_research *)

PendingTask == [kind |-> "pending"]
SearchDone(urls) == [kind |-> "urls", urls |-> urls]
Unbound == [kind |-> "unbound"]
NotRaised == "none"

(* What gather(..., return_exceptions=True) puts in the slot of a task that
   raised *)
ExceptionResult == [kind |-> "Exception"]

AllDone(tasks) == \A k \in DOMAIN tasks : tasks[k] # PendingTask
SomeDone(tasks) == tasks = <<>> \/ \E k \in DOMAIN tasks : tasks[k] # PendingTask

(* A gather that hands back its list as soon as one task has finished *)
SearchGatherReturnsOnFirst(tasks) == SomeDone(tasks)

(* A gather that is never resumed, though every task has finished *)
SearchGatherNeverReturns(tasks) == FALSE

(* Line 41: await asyncio.gather over search_tasks *)
SearchGatherReturns(tasks) == AllDone(tasks)

(* A gather that hands back its list as soon as one task has finished *)
ScrapeGatherReturnsOnFirst(tasks) == SomeDone(tasks)

(* Line 57: await asyncio.gather over scrape_tasks, return_exceptions=True *)
ScrapeGatherReturns(tasks) == AllDone(tasks)

(* Whether a scrape task handed back a document with a non-empty text *)
HasText(result) == result.kind = "dict" /\ result.text # <<>>

(* The list a search task put in its slot of results *)
TaskUrls(task) == IF task.kind = "urls" THEN task.urls ELSE <<>>

(* The loops of lines 42-46 without visited_urls.add(url) *)
RECURSIVE FilterNewNoInsert(_, _, _)
FilterNewNoInsert(urls, visited, new) ==
    IF urls = <<>> THEN [urls_to_scrape |-> new, visited_urls |-> visited]
    ELSE IF Head(urls) \notin visited
         THEN FilterNewNoInsert(Tail(urls), visited, Append(new, Head(urls)))
         ELSE FilterNewNoInsert(Tail(urls), visited, new)

(* The loops of lines 42-46 leaving only this iteration's URLs in the set *)
RECURSIVE FilterNewForgetful(_, _, _)
FilterNewForgetful(urls, visited, new) ==
    IF urls = <<>> THEN [urls_to_scrape |-> new, visited_urls |-> Range(new)]
    ELSE IF Head(urls) \notin visited
         THEN FilterNewForgetful(Tail(urls), visited \cup {Head(urls)},
                                 Append(new, Head(urls)))
         ELSE FilterNewForgetful(Tail(urls), visited, new)

(* Lines 42-46: the nested loops over the search results *)
RECURSIVE FilterNew(_, _, _)
FilterNew(urls, visited, new) ==
    IF urls = <<>> THEN [urls_to_scrape |-> new, visited_urls |-> visited]
    ELSE IF Head(urls) \notin visited
         THEN FilterNew(Tail(urls), visited \cup {Head(urls)},
                        Append(new, Head(urls)))
         ELSE FilterNew(Tail(urls), visited, new)

(* Line 60 without the test of result.get('text') *)
IsUsableAnyDict(result) == result.kind = "dict"

(* Line 60: isinstance(result, dict) and result.get('text') *)
IsUsable(result) == result.kind = "dict" /\ result.text # <<>>

(* A gather without return_exceptions: one failed task and the batch is lost *)
RECURSIVE UsableUnlessOneFails(_)
UsableUnlessOneFails(rs) ==
    IF rs = <<>> THEN <<>>
    ELSE IF IsUsable(Head(rs)) /\ (\A k \in DOMAIN rs : IsUsable(rs[k]))
         THEN <<Head(rs)>> \o UsableUnlessOneFails(Tail(rs))
         ELSE <<>>

(* The loop of lines 59-66 left at the first usable result *)
RECURSIVE UsableFirstOnly(_)
UsableFirstOnly(rs) ==
    IF rs = <<>> THEN <<>>
    ELSE IF IsUsable(Head(rs))
         THEN <<Head(rs)>>
         ELSE UsableFirstOnly(Tail(rs))

(* Lines 59-66: the loop over the scrape results *)
RECURSIVE Usable(_)
Usable(rs) ==
    IF rs = <<>> THEN <<>>
    ELSE IF IsUsable(Head(rs))
         THEN <<Head(rs)>> \o Usable(Tail(rs))
         ELSE Usable(Tail(rs))

UrlsOf(docs) == [k \in 1..Len(docs) |-> docs[k].url]

(* range(depth) left one iteration early *)
LoopDoneEarly(n, d) == n >= d - 1

(* all_learnings = new_learnings, and final_directions.extend(next_directions) *)
ExtendLearningsOverwrite(learnings, new_learnings) == new_learnings
NextDirectionsAppend(directions, next_directions) ==
    directions \o next_directions

(* Line 26: for i in range(depth) *)
LoopContinues(n, d) == n < d
LoopDone(n, d) == n >= d

(* all_learnings extended with the new learnings it does not hold yet *)
ExtendLearningsDedup(learnings, new_learnings) ==
    learnings \o SelectSeq(new_learnings, LAMBDA x : x \notin Range(learnings))

(* Lines 91-92 *)
ExtendLearnings(learnings, new_learnings) == learnings \o new_learnings
NextDirections(directions, next_directions) == next_directions

(* current_query_context = next_directions[0] when there is a direction *)
NextContextFromDirections(context, next_directions) ==
    IF next_directions = <<>> THEN context ELSE Head(next_directions)

(* Lines 85-92 assign new_learnings, next_directions, all_learnings and
   final_directions: current_query_context keeps the value of line 23 *)
NextContext(context, next_directions) == context

----------------------------------------------------------------------------
(* The inputs of a run and what the collaborators may answer *)

Queries == {"qa", "qb"}
Findings == {"f1", "f2"}
ExistingLearnings == {<<>>, <<"f1">>}

ControllerTexts ==
    { <<>>,
      <<"a">>,
      <<"a", NL, "b">>,
      <<SP, "a", NL, NL, "b", SP, NL, "a", "b">>,
      <<"a", NL, "b", NL, "b", NL, "a">> }

ExpandApis ==
    {ApiException, ApiNoParts, ApiNoCandidates}
        \cup {ApiText(Plain(c)) : c \in ControllerTexts}

FindingLists == {<<>>, <<"f1">>, <<"f2", "f1">>}
DirectionLists == {<<>>, <<"d1">>, <<"d2">>}

JsonValues ==
    {JsonInvalid, JsonScalar, JsonArray}
        \cup {JsonObject(l, d) :
                  l \in {ListOf(x) : x \in FindingLists} \cup {Missing, NotList},
                  d \in {ListOf(x) : x \in DirectionLists} \cup {Missing, NotList}}

SynthApis ==
    {ApiException, ApiNoParts, ApiNoCandidates}
        \cup {ApiText(Text(<<"a">>, j)) : j \in JsonValues}

ReportApis ==
    {ApiException, ApiNoParts, ApiNoCandidates,
     ApiText(EmptyText), ApiText(Plain(<<"a">>))}

ProviderOutcomes ==
    {ProviderException}
        \cup {ProviderResults(e) : e \in SeqsUpTo(URLS \cup {Malformed}, MaxRaw)}

FetchOutcomes ==
    {RequestError, ParseError}
        \cup {Response(st, h, b, t) : st \in {200, 304, 404, 500},
                                      h \in BOOLEAN, b \in BOOLEAN,
                                      t \in {<<>>, <<"a">>}}

(* What each collaborator can hand back to the controller *)
ExpandAnswers ==
    [b \in 1..MaxBreadth |-> {generate_search_queries(api, b) : api \in ExpandApis}]
SearchAnswers == {find_urls(p, NumResults) : p \in ProviderOutcomes}
ScrapeAnswers == [u \in URLS |-> {scrape_content(u, f) : f \in FetchOutcomes}]

(* What a scrape task can leave in its slot of scraped_results: the loop of
   lines 59-66 also provides for a raised exception and for a dict whose text
   is empty *)
ScrapeOutcomes ==
    [u \in URLS |-> ScrapeAnswers[u] \cup {ExceptionResult, Document(u, <<>>)}]
SynthAnswers == {summarize_and_find_directions(api) : api \in SynthApis}

NoFnCall == [op |-> "none"]
NoRuns == <<>>
NoHeap == <<>>

----------------------------------------------------------------------------
(* perform_deep_research *)

Init ==
    /\ pc = "loop"
    /\ initial_query \in Queries
    /\ depth \in 1..MaxDepth
    /\ breadth \in 1..MaxBreadth
    /\ existing_learnings \in ExistingLearnings
    /\ i = 0
    /\ all_learnings = existing_learnings
    /\ visited_urls = {}
    /\ all_sources = <<>>
    /\ final_directions = <<>>
    /\ search_queries = <<>>
    /\ results = <<>>
    /\ urls_to_scrape = <<>>
    /\ scraped_results = <<>>
    /\ summary_and_directions = Unbound
    /\ expand_calls = 0
    /\ synth_calls = 0
    /\ scrape_calls = <<>>
    /\ raised_from = NotRaised
    /\ returned = Unbound
    /\ current_query_context = initial_query
    /\ prompt_contexts = {}
    /\ scrape_log = {}
    /\ synth_log = <<>>
    /\ runs = NoRuns
    /\ heap = NoHeap
    /\ fn_call = NoFnCall
    /\ fn_out = PendingTask

(* Lines 26-41: the next iteration starts, the Query Expander is awaited and
   one search task per query is handed to gather. *)
GenerateSearchQueries ==
    /\ pc = "loop"
    /\ LoopContinues(i, depth)
    /\ \E r \in ExpandAnswers[breadth] :
             /\ i' = i + 1
             /\ expand_calls' = expand_calls + 1
             /\ prompt_contexts' = prompt_contexts \cup {current_query_context}
             /\ IF r.raised
                THEN /\ pc' = "raised"
                     /\ raised_from' = "generate_search_queries"
                     /\ UNCHANGED <<search_queries, results, urls_to_scrape>>
                ELSE /\ pc' = "search"
                     /\ search_queries' = r.value
                     /\ urls_to_scrape' = <<>>
                     /\ results' = [k \in 1..Len(r.value) |-> PendingTask]
                     /\ UNCHANGED raised_from
    /\ UNCHANGED <<initial_query, depth, breadth, existing_learnings,
                   all_learnings, visited_urls, all_sources, final_directions,
                   scraped_results, summary_and_directions, synth_calls,
                   scrape_calls, returned, current_query_context, fn_vars,
                   run_vars, scrape_log,
                   synth_log>>

(* One search task of the gather of line 41 completes. *)
FindUrls(k) ==
    /\ pc = "search"
    /\ k \in DOMAIN results
    /\ results[k] = PendingTask
    /\ \E urls \in SearchAnswers :
         results' = [results EXCEPT ![k] = SearchDone(urls)]
    /\ UNCHANGED <<pc, initial_query, depth, breadth, existing_learnings, i,
                   all_learnings, visited_urls, all_sources, final_directions,
                   search_queries, urls_to_scrape, scraped_results,
                   summary_and_directions, expand_calls, synth_calls,
                   scrape_calls, raised_from, returned, current_query_context,
                   prompt_contexts, fn_vars, run_vars, scrape_log,
                   synth_log>>

(* Lines 41-57: the gather of the searches returns, the new URLs are
   filtered, and one scrape task per new URL is handed to gather.  The
   queries and the search results are not read again: they are emptied. *)
FilterResults ==
    /\ pc = "search"
    /\ SearchGatherReturns(results)
    /\ LET flat == Flatten([k \in DOMAIN results |-> TaskUrls(results[k])])
           f == FilterNew(flat, visited_urls, urls_to_scrape)
       IN  /\ visited_urls' = f.visited_urls
           /\ urls_to_scrape' = f.urls_to_scrape
           /\ IF f.urls_to_scrape = <<>>
              THEN /\ pc' = "loop"
                   /\ UNCHANGED <<scraped_results, scrape_calls>>
              ELSE /\ pc' = "scrape"
                   /\ scraped_results' =
                          [k \in 1..Len(f.urls_to_scrape) |-> PendingTask]
                   /\ scrape_calls' = scrape_calls \o f.urls_to_scrape
    /\ search_queries' = <<>>
    /\ results' = <<>>
    /\ UNCHANGED <<initial_query, depth, breadth, existing_learnings, i,
                   all_learnings, all_sources, final_directions,
                   summary_and_directions, expand_calls, synth_calls,
                   raised_from, returned, current_query_context,
                   prompt_contexts, fn_vars, run_vars, scrape_log,
                   synth_log>>

(* One scrape task of the gather of line 57 completes. *)
ScrapeContent(k) ==
    /\ pc = "scrape"
    /\ k \in DOMAIN scraped_results
    /\ scraped_results[k] = PendingTask
    /\ \E result \in ScrapeOutcomes[urls_to_scrape[k]] :
         /\ scraped_results' = [scraped_results EXCEPT ![k] = result]
         /\ scrape_log' = scrape_log \cup
                {[url |-> urls_to_scrape[k], text |-> HasText(result)]}
    /\ UNCHANGED <<pc, initial_query, depth, breadth, existing_learnings, i,
                   all_learnings, visited_urls, all_sources, final_directions,
                   search_queries, results, urls_to_scrape,
                   summary_and_directions, expand_calls, synth_calls,
                   scrape_calls, raised_from, returned, current_query_context,
                   prompt_contexts, fn_vars, run_vars, synth_log>>

(* Lines 57-73: the gather of the scrapes returns and the usable documents
   are collected.  The URL list and the scrape results are not read again
   (the text of the documents goes into the prompt only): they are emptied. *)
CollectScraped ==
    /\ pc = "scrape"
    /\ ScrapeGatherReturns(scraped_results)
    /\ LET scraped_data == Usable(scraped_results)
           successful_urls == UrlsOf(scraped_data)
       IN  IF scraped_data = <<>>
           THEN /\ pc' = "loop"
                /\ UNCHANGED all_sources
           ELSE /\ pc' = "synth"
                /\ all_sources' = all_sources \o successful_urls
    /\ urls_to_scrape' = <<>>
    /\ scraped_results' = <<>>
    /\ UNCHANGED <<initial_query, depth, breadth, existing_learnings, i,
                   all_learnings, visited_urls, final_directions,
                   search_queries, results, summary_and_directions,
                   expand_calls, synth_calls, scrape_calls, raised_from,
                   returned, current_query_context, prompt_contexts, fn_vars,
                   run_vars, scrape_log,
                   synth_log>>

(* Lines 77-92: the Synthesizer is awaited and its result folded in. *)
SummarizeAndFindDirections ==
    /\ pc = "synth"
    /\ \E r \in SynthAnswers :
             /\ synth_calls' = synth_calls + 1
             /\ prompt_contexts' = prompt_contexts \cup {current_query_context}
             /\ IF r.raised
                THEN /\ pc' = "raised"
                     /\ raised_from' = "summarize_and_find_directions"
                     /\ UNCHANGED <<summary_and_directions, all_learnings,
                                    final_directions, current_query_context,
                                    synth_log>>
                ELSE /\ pc' = "loop"
                     /\ summary_and_directions' = r.value
                     /\ synth_log' = synth_log \o r.value.learnings
                     /\ all_learnings' =
                            ExtendLearnings(all_learnings, r.value.learnings)
                     /\ final_directions' =
                            NextDirections(final_directions, r.value.directions)
                     /\ current_query_context' =
                            NextContext(current_query_context,
                                        r.value.directions)
                     /\ UNCHANGED raised_from
    /\ UNCHANGED <<initial_query, depth, breadth, existing_learnings, i,
                   visited_urls, all_sources, search_queries, results,
                   urls_to_scrape, scraped_results, expand_calls,
                   scrape_calls, returned, fn_vars, run_vars, scrape_log>>

(* Lines 94-98: the loop is over, the Report Composer is awaited and the
   tuple returned. *)
GenerateFinalReport ==
    /\ pc = "loop"
    /\ LoopDone(i, depth)
    /\ \E api \in ReportApis :
         LET r == generate_final_report(initial_query, all_learnings, api)
         IN  IF r.raised
             THEN /\ pc' = "raised"
                  /\ raised_from' = "generate_final_report"
                  /\ UNCHANGED returned
             ELSE /\ pc' = "done"
                  /\ returned' = [kind |-> "tuple",
                                  final_report |-> r.value,
                                  sources |-> Range(all_sources),
                                  learnings |-> all_learnings,
                                  directions |-> final_directions]
                  /\ UNCHANGED raised_from
    /\ UNCHANGED <<initial_query, depth, breadth, existing_learnings, i,
                   all_learnings, visited_urls, all_sources, final_directions,
                   search_queries, results, urls_to_scrape, scraped_results,
                   summary_and_directions, expand_calls, synth_calls,
                   scrape_calls, current_query_context, prompt_contexts,
                   fn_vars, run_vars, scrape_log,
                   synth_log>>

Next ==
    \/ GenerateSearchQueries
    \/ \E k \in 1..(MaxBreadth + 1) : FindUrls(k)
    \/ FilterResults
    \/ \E k \in 1..(NumResults * (MaxBreadth + 1)) : ScrapeContent(k)
    \/ CollectScraped
    \/ SummarizeAndFindDirections
    \/ GenerateFinalReport

Spec == Init /\ [][Next]_vars

(* Every awaited call returns or fails in the end and the event loop resumes
   the coroutine: a step that can be taken is taken. *)
Fairness == WF_vars(Next)

(* The runs on one query without findings of the caller: neither decides
   which step comes next *)
InitLive ==
    /\ Init
    /\ initial_query = "qa"
    /\ existing_learnings = <<>>

SpecLive == InitLive /\ [][Next]_vars /\ Fairness

----------------------------------------------------------------------------
(* One call of a function of utils/llm.py on its own *)

AllTexts == {Plain(c) : c \in SeqsUpTo(Chars, MaxText)}

FnCalls ==
    {[op |-> "generate_search_queries", api |-> api, breadth |-> b] :
        api \in {ApiException, ApiNoParts, ApiNoCandidates}
                    \cup {ApiText(t) : t \in AllTexts},
        b \in 1..MaxBreadth}
    \cup
    {[op |-> "summarize_and_find_directions", api |-> api] :
        api \in SynthApis \cup {ApiText(EmptyText)}}
    \cup
    {[op |-> "generate_final_report", query |-> q, learnings |-> l,
      api |-> api] :
        q \in Queries, l \in SeqsUpTo(Findings, 2), api \in ReportApis}

FnResult(r) == [kind |-> "result", r |-> r]

InitLlm ==
    /\ pc = "idle"
    /\ initial_query = "qa"
    /\ depth = 1
    /\ breadth = 1
    /\ existing_learnings = <<>>
    /\ i = 0
    /\ all_learnings = <<>>
    /\ visited_urls = {}
    /\ all_sources = <<>>
    /\ final_directions = <<>>
    /\ search_queries = <<>>
    /\ results = <<>>
    /\ urls_to_scrape = <<>>
    /\ scraped_results = <<>>
    /\ summary_and_directions = Unbound
    /\ expand_calls = 0
    /\ synth_calls = 0
    /\ scrape_calls = <<>>
    /\ raised_from = NotRaised
    /\ returned = Unbound
    /\ current_query_context = initial_query
    /\ prompt_contexts = {}
    /\ scrape_log = {}
    /\ synth_log = <<>>
    /\ runs = NoRuns
    /\ heap = NoHeap
    /\ fn_call \in FnCalls
    /\ fn_out = PendingTask

CallGenerateSearchQueries ==
    /\ fn_out = PendingTask
    /\ fn_call.op = "generate_search_queries"
    /\ fn_out' = FnResult(generate_search_queries(fn_call.api, fn_call.breadth))
    /\ UNCHANGED <<ctl_vars, run_vars, fn_call>>

CallSummarizeAndFindDirections ==
    /\ fn_out = PendingTask
    /\ fn_call.op = "summarize_and_find_directions"
    /\ fn_out' = FnResult(summarize_and_find_directions(fn_call.api))
    /\ UNCHANGED <<ctl_vars, run_vars, fn_call>>

CallGenerateFinalReport ==
    /\ fn_out = PendingTask
    /\ fn_call.op = "generate_final_report"
    /\ fn_out' = FnResult(generate_final_report(fn_call.query,
                                                fn_call.learnings, fn_call.api))
    /\ UNCHANGED <<ctl_vars, run_vars, fn_call>>

NextLlm ==
    \/ CallGenerateSearchQueries
    \/ CallSummarizeAndFindDirections
    \/ CallGenerateFinalReport

SpecLlm == InitLlm /\ [][NextLlm]_vars

Called(op) == fn_out # PendingTask /\ fn_call.op = op

----------------------------------------------------------------------------
(* Properties of perform_deep_research, checked under Spec *)

NoDuplicates(s) == \A j, k \in 1..Len(s) : j # k => s[j] # s[k]

FlatResults == Flatten([k \in DOMAIN results |-> results[k].urls])

(* C1: within one run no URL is passed to scraper.scrape_content more than
   once, whether the Retriever returns it twice for one query, for two
   queries of one iteration, or again in a later iteration. *)
UrlScrapedAtMostOnce == NoDuplicates(scrape_calls)

(* The searches of a later iteration have all answered: they bring back a URL
   scraped in an earlier iteration, and the same URL twice. *)
UrlScrapedAtMostOnceWitness ==
    /\ pc = "search"
    /\ i >= 2
    /\ results # <<>>
    /\ AllDone(results)
    /\ \E u \in Range(scrape_calls) : u \in Range(FlatResults)
    /\ ~NoDuplicates(FlatResults)

(* C2: no failure of a per-iteration sub-task leaves perform_deep_research as
   an exception: only the Report Composer's failure reaches the caller. *)
OnlyReportComposerRaises ==
    pc = "raised" => raised_from = "generate_final_report"

ReportComposerCalled ==
    pc = "done" \/ raised_from = "generate_final_report"

(* C3: the loop runs exactly depth iterations whatever iterations starve: the
   Query Expander is never called more than depth times, and the Report
   Composer is called only once it has been called depth times. *)
DepthBound ==
    /\ expand_calls <= depth
    /\ ReportComposerCalled => expand_calls = depth /\ i = depth

(* A run of several iterations, none of which found a URL, has returned. *)
DepthBoundWitness ==
    /\ pc = "done"
    /\ depth >= 2
    /\ visited_urls = {}
    /\ expand_calls = depth

(* C5: sources is a subset of visitedUrls at every point of the run, and so
   is the source list that is returned. *)
SourcesSubsetOfVisited ==
    /\ Range(all_sources) \subseteq visited_urls
    /\ pc = "done" => returned.sources \subseteq visited_urls

(* A run of two iterations has returned a source from each. *)
SourcesSubsetOfVisitedWitness ==
    /\ pc = "done"
    /\ synth_calls >= 2
    /\ Cardinality(returned.sources) >= 2

IsPrefix(s, t) == Len(s) <= Len(t) /\ SubSeq(t, 1, Len(s)) = s

(* C6: no step of the run removes, clears or shortens all_learnings: each
   step leaves the list as it was or longer, with the old list as prefix. *)
FindingsNeverShrink ==
    [][/\ Len(all_learnings') >= Len(all_learnings)
       /\ IsPrefix(all_learnings, all_learnings')]_vars

(* After a synthesis that added findings, a later synthesis came back
   malformed or empty, and the findings are still there. *)
FindingsNeverShrinkWitness ==
    /\ synth_calls >= 2
    /\ summary_and_directions = EmptySummary
    /\ Len(all_learnings) > Len(existing_learnings)

LastSynthesizedDirections ==
    IF summary_and_directions = Unbound
    THEN <<>>
    ELSE summary_and_directions.directions

(* C7: final_directions is at every point the directions list of the last
   synthesis performed, the empty list before any, and that list is what the
   run returns. *)
DirectionsOverwrite ==
    /\ final_directions = LastSynthesizedDirections
    /\ pc = "done" => returned.directions = LastSynthesizedDirections

(* Several iterations synthesized and the run returned the last directions. *)
DirectionsOverwriteWitness ==
    /\ pc = "done"
    /\ synth_calls >= 2
    /\ returned.directions # <<>>

----------------------------------------------------------------------------
(* Properties of the functions of utils/llm.py, checked under SpecLlm *)

(* Position k holds the first, or the last, non-blank character of its line *)
FirstOfLine(t, k) ==
    /\ t[k] \notin Whitespace
    /\ \A m \in 1..(k - 1) :
           (\A n \in m..(k - 1) : t[n] # NL) => t[m] \in Whitespace

LastOfLine(t, k) ==
    /\ t[k] \notin Whitespace
    /\ \A m \in (k + 1)..Len(t) :
           (\A n \in (k + 1)..m : t[n] # NL) => t[m] \in Whitespace

NonBlankLines(t) == {k \in 1..Len(t) : FirstOfLine(t, k)}

(* The j-th non-blank line of t without the blanks around it *)
NonBlankLine(t, j) ==
    LET k == CHOOSE x \in NonBlankLines(t) :
                 Cardinality({y \in NonBlankLines(t) : y < x}) = j - 1
        e == CHOOSE x \in k..Len(t) :
                 LastOfLine(t, x) /\ \A n \in k..x : t[n] # NL
    IN  SubSeq(t, k, e)

(* C8: for any response text and breadth, generate_search_queries returns
   the first breadth non-blank lines of the response, in order, and all of
   them when there are fewer than breadth. *)
BreadthBound ==
    Called("generate_search_queries") /\ fn_call.api.kind = "text" =>
        LET t == fn_call.api.text.chars
            n == Cardinality(NonBlankLines(t))
        IN  /\ ~fn_out.r.raised
            /\ Len(fn_out.r.value) <= fn_call.breadth
            /\ Len(fn_out.r.value) = Min(fn_call.breadth, n)
            /\ \A j \in 1..Len(fn_out.r.value) :
                   fn_out.r.value[j] = NonBlankLine(t, j)

(* A response with more non-blank lines than the breadth asked for *)
BreadthBoundWitness ==
    /\ Called("generate_search_queries")
    /\ fn_call.api.kind = "text"
    /\ fn_call.breadth >= 2
    /\ Cardinality(NonBlankLines(fn_call.api.text.chars)) > fn_call.breadth
    /\ Len(fn_out.r.value) = fn_call.breadth

ModelFailsOrEmpty(api) ==
    \/ api.kind \in {"exception", "no_parts"}
    \/ api.kind = "text" /\ api.text.chars = <<>>

(* C4: generate_final_report never raises, and with findings and a model
   call that fails or returns no text it returns the fallback document that
   lists every finding. *)
ComposeNeverRaises ==
    Called("generate_final_report") =>
        /\ ~fn_out.r.raised
        /\ fn_call.learnings # <<>> /\ ModelFailsOrEmpty(fn_call.api) =>
               fn_out.r.value = NotGeneratedReport(fn_call.learnings)

(* C9: with no findings generate_final_report returns the no-information
   template for the query and does not call the model. *)
NoInformationWithoutModel ==
    Called("generate_final_report") /\ fn_call.learnings = <<>> =>
        /\ ~fn_out.r.raised
        /\ ~fn_out.r.called
        /\ fn_out.r.value = NoInformationReport(fn_call.query)

(* No findings, and a model that would have raised *)
NoInformationWithoutModelWitness ==
    /\ Called("generate_final_report")
    /\ fn_call.learnings = <<>>
    /\ fn_call.query = "qb"
    /\ fn_call.api = ApiException
    /\ ~fn_out.r.raised

ResponseText(api) == IF api.kind = "text" THEN api.text ELSE EmptyText

WellFormedSummary(j) ==
    /\ j.json = "object"
    /\ j.learnings.type = "list"
    /\ j.directions.type = "list"

(* C10: summarize_and_find_directions does not raise on any response text:
   it returns the object's two lists when the response is a JSON object
   whose learnings and directions are both lists, and two empty lists for
   every other response. *)
SynthesizeRecovers ==
    Called("summarize_and_find_directions")
        /\ call_gemini_api(fn_call.api) # Raise =>
        LET j == ResponseText(fn_call.api).json
        IN  /\ ~fn_out.r.raised
            /\ fn_out.r.value =
                   IF WellFormedSummary(j)
                   THEN [learnings |-> j.learnings.items,
                         directions |-> j.directions.items]
                   ELSE EmptySummary

(* An object with findings whose directions field is missing *)
SynthesizeRecoversWitness ==
    /\ Called("summarize_and_find_directions")
    /\ fn_call.api = ApiText(Text(<<"a">>, JsonObject(ListOf(<<"f1">>), Missing)))
    /\ fn_out.r = Return(EmptySummary)

----------------------------------------------------------------------------
(* One call of a function of utils/search.py or utils/scraper.py on its own *)

UtilCalls ==
    {[op |-> "find_urls", provider |-> p, num_results |-> n] :
        p \in ProviderOutcomes, n \in 0..MaxLimit}
    \cup
    {[op |-> "scrape_content", url |-> u, fetch |-> f] :
        u \in URLS, f \in FetchOutcomes}
    \cup
    {[op |-> "run_research", env |-> e] : e \in RequestEnvs}

InitUtils ==
    /\ pc = "idle"
    /\ initial_query = "qa"
    /\ depth = 1
    /\ breadth = 1
    /\ existing_learnings = <<>>
    /\ i = 0
    /\ all_learnings = <<>>
    /\ visited_urls = {}
    /\ all_sources = <<>>
    /\ final_directions = <<>>
    /\ search_queries = <<>>
    /\ results = <<>>
    /\ urls_to_scrape = <<>>
    /\ scraped_results = <<>>
    /\ summary_and_directions = Unbound
    /\ expand_calls = 0
    /\ synth_calls = 0
    /\ scrape_calls = <<>>
    /\ raised_from = NotRaised
    /\ returned = Unbound
    /\ current_query_context = initial_query
    /\ prompt_contexts = {}
    /\ scrape_log = {}
    /\ synth_log = <<>>
    /\ runs = NoRuns
    /\ heap = NoHeap
    /\ fn_call \in UtilCalls
    /\ fn_out = PendingTask

CallFindUrls ==
    /\ fn_out = PendingTask
    /\ fn_call.op = "find_urls"
    /\ fn_out' = FnResult(find_urls_call(fn_call.provider, fn_call.num_results))
    /\ UNCHANGED <<ctl_vars, run_vars, fn_call>>

CallScrapeContent ==
    /\ fn_out = PendingTask
    /\ fn_call.op = "scrape_content"
    /\ fn_out' = FnResult(Return(scrape_content(fn_call.url, fn_call.fetch)))
    /\ UNCHANGED <<ctl_vars, run_vars, fn_call>>

CallRunResearch ==
    /\ fn_out = PendingTask
    /\ fn_call.op = "run_research"
    /\ fn_out' = FnResult(run_research(fn_call.env))
    /\ UNCHANGED <<ctl_vars, run_vars, fn_call>>

NextUtils ==
    \/ CallFindUrls
    \/ CallScrapeContent
    \/ CallRunResearch

SpecUtils == InitUtils /\ [][NextUtils]_vars

----------------------------------------------------------------------------
(* Properties of find_urls and scrape_content, checked under SpecUtils *)

(* C11: on any failure of the search provider find_urls returns the empty
   list and the failure does not reach its caller. *)
SearchFailureIsEmpty ==
    Called("find_urls") /\ fn_call.provider.kind = "exception" =>
        fn_out.r = Return(<<>>)

(* The provider failed on a search that asked for results *)
SearchFailureIsEmptyWitness ==
    /\ Called("find_urls")
    /\ fn_call.provider = ProviderException
    /\ fn_call.num_results = NumResults
    /\ ~fn_out.r.raised

WellFormedEntries(entries) == SelectSeq(entries, WellFormedEntry)

(* C12: for every limit find_urls returns at most limit URLs: the first
   limit well-formed entries of the provider, in the provider's order. *)
SearchAtMostLimit ==
    Called("find_urls") /\ fn_call.provider.kind = "results" =>
        LET wf == WellFormedEntries(fn_call.provider.entries)
        IN  /\ Len(fn_out.r.value) <= fn_call.num_results
            /\ fn_out.r.value = SubSeq(wf, 1, Min(fn_call.num_results, Len(wf)))

FetchFails(fetch) ==
    \/ fetch.kind \in {"request_error", "parse_error"}
    \/ /\ fetch.kind = "response"
       /\ \/ fetch.status < 200
          \/ fetch.status > 299
          \/ ~fetch.html
          \/ ~fetch.body
          \/ fetch.text = <<>>

(* C13: scrape_content does not raise; it returns None for every status
   outside 2xx, every content type that is not HTML, every page without a
   body element, every empty extracted text and every network or parse
   error, and otherwise the document of that URL with a non-empty text. *)
ExtractFailsOrHasText ==
    Called("scrape_content") =>
        /\ ~fn_out.r.raised
        /\ IF FetchFails(fn_call.fetch)
           THEN fn_out.r.value = NoneResult
           ELSE /\ fn_out.r.value = Document(fn_call.url, fn_call.fetch.text)
                /\ fn_out.r.value.text # <<>>

(* C15: every request to run_research ends with a response that is either a
   result file path with no error, the file written in full, or an error
   with an empty path and nothing written to the result file. *)
ResultOrErrorNeverPartial ==
    Called("run_research") =>
        /\ ~fn_out.r.raised
        /\ \/ /\ fn_out.r.response.result_file # ""
              /\ fn_out.r.response.error = NoError
              /\ fn_out.r.written = "complete"
           \/ /\ fn_out.r.response.result_file = ""
              /\ fn_out.r.response.error # NoError
              /\ fn_out.r.written = "nothing"

(* An HTML page with a body and status 200 whose extracted text is empty *)
ExtractFailsOrHasTextWitness ==
    /\ Called("scrape_content")
    /\ fn_call.fetch = Response(200, TRUE, TRUE, <<>>)
    /\ fn_out.r.value = NoneResult

----------------------------------------------------------------------------
(* Properties of the scrape batch and of the phases of an iteration, checked
   under Spec *)

GoodSlot(k) ==
    scraped_results[k].kind = "dict" /\ scraped_results[k].text # <<>>

(* The URLs of the scrape tasks that handed back a document with text, in
   the order of the tasks *)
GoodUrls ==
    LET slots == SelectSeq([k \in 1..Len(scraped_results) |-> k], GoodSlot)
    IN  [j \in 1..Len(slots) |-> urls_to_scrape[slots[j]]]

Pending(tasks) == {k \in DOMAIN tasks : tasks[k] = PendingTask}

(* C14: whichever scrape tasks of an iteration fail (None, a document with
   empty text, a raised exception), the step that collects the batch does
   not raise: the URLs of the documents with text are all appended to
   all_sources, and the Synthesizer is reached exactly when there is one. *)
FailedScrapesKeepSiblings ==
    [][pc = "scrape" /\ pc' # "scrape" =>
          /\ raised_from' = NotRaised
          /\ all_sources' = all_sources \o GoodUrls
          /\ pc' = (IF GoodUrls = <<>> THEN "loop" ELSE "synth")]_vars

(* Of two scrape tasks one raised and the other's document was collected *)
FailedScrapesKeepSiblingsWitness ==
    /\ pc = "synth"
    /\ i = 1
    /\ Len(scrape_calls) = 2
    /\ Len(all_sources) = 1

(* C16: scrape_content is called only with a non-empty list of URLs that
   were new to visited_urls; the Synthesizer is reached only from a batch
   with a document with text; a step that is not the Synthesizer's return
   leaves all_learnings and final_directions unchanged, and a step that does
   not reach the Synthesizer leaves all_sources unchanged. *)
SkippedPhasesChangeNothing ==
    [][/\ scrape_calls' # scrape_calls =>
             /\ urls_to_scrape' # <<>>
             /\ scrape_calls' = scrape_calls \o urls_to_scrape'
             /\ Range(urls_to_scrape') \cap visited_urls = {}
             /\ Range(urls_to_scrape') \subseteq visited_urls'
       /\ pc' = "synth" =>
             /\ pc = "scrape"
             /\ \E k \in DOMAIN scraped_results : GoodSlot(k)
       /\ synth_calls' # synth_calls => pc = "synth"
       /\ synth_calls' = synth_calls =>
             /\ all_learnings' = all_learnings
             /\ final_directions' = final_directions
       /\ pc' # "synth" => all_sources' = all_sources
       /\ pc' = "loop" /\ pc \in {"search", "scrape"} =>
             visited_urls \subseteq visited_urls']_vars

(* The second iteration is over without a synthesis, after a first one that
   synthesized: what the first one gathered is all there is. *)
SkippedPhasesChangeNothingWitness ==
    /\ pc = "loop"
    /\ i = 2
    /\ synth_calls = 1
    /\ Len(scrape_calls) = 2
    /\ Len(all_sources) = 1
    /\ all_learnings # existing_learnings

(* C17: the Query Expander is called, and visited_urls, all_learnings and
   all_sources change, only while no search task and no scrape task is
   pending and the Synthesizer is not awaited. *)
IterationsDoNotOverlap ==
    [][/\ expand_calls' # expand_calls =>
             /\ pc = "loop"
             /\ results = <<>>
             /\ scraped_results = <<>>
       /\ (visited_urls' # visited_urls \/ all_learnings' # all_learnings
              \/ all_sources' # all_sources) =>
             /\ Pending(results) = {}
             /\ Pending(scraped_results) = {}]_vars

(* The searches of the second iteration are pending, after a first
   iteration that went through every phase. *)
IterationsDoNotOverlapWitness ==
    /\ pc = "search"
    /\ expand_calls = 2
    /\ synth_calls = 1
    /\ Pending(results) # {}
    /\ visited_urls # {}

(* C18: no scrape task starts while a search task is pending, and the
   Synthesizer is not reached while a scrape task is pending; while a gather
   is awaited a slot that is filled stays as it is and no slot is dropped,
   whatever its siblings do. *)
PhasesAwaitAll ==
    [][/\ scraped_results' # <<>> /\ scraped_results = <<>> =>
             /\ pc = "search"
             /\ Pending(results) = {}
       /\ pc' \in {"synth", "loop"} /\ pc = "scrape" =>
             Pending(scraped_results) = {}
       /\ pc' = "scrape" /\ pc = "scrape" =>
             /\ DOMAIN scraped_results' = DOMAIN scraped_results
             /\ \A k \in DOMAIN scraped_results :
                    scraped_results[k] # PendingTask =>
                        scraped_results'[k] = scraped_results[k]
       /\ pc' = "search" /\ pc = "search" =>
             /\ DOMAIN results' = DOMAIN results
             /\ \A k \in DOMAIN results :
                    results[k] # PendingTask => results'[k] = results[k]]_vars

(* A scrape task has raised while its sibling is still pending *)
PhasesAwaitAllWitness ==
    /\ pc = "scrape"
    /\ Len(scraped_results) = 2
    /\ scraped_results[2] = ExceptionResult
    /\ scraped_results[1] = PendingTask

(* C20: current_query_context is the original query at every point of the
   run, and no other context has been handed to generate_search_queries or
   to summarize_and_find_directions. *)
ContextIsInitialQuery ==
    /\ current_query_context = initial_query
    /\ prompt_contexts \subseteq {initial_query}

(* A second iteration has called the Query Expander after a synthesis that
   proposed directions. *)
ContextIsInitialQueryWitness ==
    /\ expand_calls = 2
    /\ synth_calls = 1
    /\ final_directions # <<>>
    /\ prompt_contexts = {initial_query}

----------------------------------------------------------------------------
(* Two invocations of perform_deep_research side by side, both handed the
   same list object as existing_learnings.  A step of a run is the code
   between two awaits at which shared state could be touched; the answers of
   the collaborators are drawn at the step that receives them. *)

Runs == {1, 2}

(* The list object of the caller *)
CallerList == 0

(* visited_urls bound to one set object of the module, shared by the runs *)
NewSetShared(sets, fresh) == [ref |-> 1, sets |-> sets]

(* Line 21: set() makes a new, empty set object *)
NewSet(sets, fresh) == [ref |-> fresh, sets |-> [sets EXCEPT ![fresh] = {}]]

(* Line 20: list(existing_learnings) makes a new list object with the
   elements of the argument *)
ListCopy(lists, src, fresh) ==
    [ref |-> fresh, lists |-> [lists EXCEPT ![fresh] = lists[src]]]

RunSearchAnswers == {<<>>, <<"u1">>, <<"u2", "u1">>}
RunSynthAnswers ==
    {[learnings |-> <<>>, directions |-> <<>>],
     [learnings |-> <<"f2">>, directions |-> <<"d1">>]}

(* The scrape results of a batch in which the URLs of good succeed *)
RunScraped(urls, good) ==
    [k \in 1..Len(urls) |->
        IF urls[k] \in good THEN Document(urls[k], <<"a">>) ELSE NoneResult]

NewRun(d) ==
    [pc |-> "start", depth |-> d, i |-> 0,
     all_learnings |-> CallerList, visited_urls |-> 1,
     all_sources |-> <<>>, final_directions |-> <<>>,
     urls_to_scrape |-> <<>>, returned |-> Unbound,
     searched |-> <<>>, scraped |-> <<>>, succeeded |-> <<>>,
     synthesized |-> <<>>, proposed |-> <<>>]

InitRuns ==
    /\ pc = "idle"
    /\ initial_query = "qa"
    /\ depth = 1
    /\ breadth = 1
    /\ existing_learnings \in ExistingLearnings
    /\ i = 0
    /\ all_learnings = <<>>
    /\ visited_urls = {}
    /\ all_sources = <<>>
    /\ final_directions = <<>>
    /\ search_queries = <<>>
    /\ results = <<>>
    /\ urls_to_scrape = <<>>
    /\ scraped_results = <<>>
    /\ summary_and_directions = Unbound
    /\ expand_calls = 0
    /\ synth_calls = 0
    /\ scrape_calls = <<>>
    /\ raised_from = NotRaised
    /\ returned = Unbound
    /\ current_query_context = initial_query
    /\ prompt_contexts = {}
    /\ scrape_log = {}
    /\ synth_log = <<>>
    /\ runs \in {[r \in Runs |-> NewRun(d[r])] : d \in [Runs -> 1..MaxDepth]}
    /\ heap = [lists |-> [ref \in {CallerList} \cup Runs |->
                             IF ref = CallerList THEN existing_learnings
                             ELSE <<>>],
               sets |-> [ref \in Runs |-> {}]]
    /\ fn_call = NoFnCall
    /\ fn_out = PendingTask

(* Lines 17-24: the locals of the invocation *)
RunStart(r) ==
    /\ runs[r].pc = "start"
    /\ LET l == ListCopy(heap.lists, CallerList, r)
           v == NewSet(heap.sets, r)
       IN  /\ heap' = [lists |-> l.lists, sets |-> v.sets]
           /\ runs' = [runs EXCEPT ![r].pc = "loop",
                                   ![r].all_learnings = l.ref,
                                   ![r].visited_urls = v.ref]
    /\ UNCHANGED <<ctl_vars, fn_vars>>

(* Lines 26-50: the Query Expander and the search of its query have
   answered, the new URLs are filtered *)
RunSearch(r) ==
    /\ runs[r].pc = "loop"
    /\ LoopContinues(runs[r].i, runs[r].depth)
    /\ \E urls \in RunSearchAnswers :
         LET v == runs[r].visited_urls
             f == FilterNew(urls, heap.sets[v], <<>>)
         IN  /\ heap' = [heap EXCEPT !.sets[v] = f.visited_urls]
             /\ runs' = [runs EXCEPT
                    ![r].i = @ + 1,
                    ![r].urls_to_scrape = f.urls_to_scrape,
                    ![r].searched = @ \o urls,
                    ![r].scraped = @ \o f.urls_to_scrape,
                    ![r].pc = IF f.urls_to_scrape = <<>> THEN "loop"
                              ELSE "scrape"]
    /\ UNCHANGED <<ctl_vars, fn_vars>>

(* Lines 57-73: the scrapes have answered *)
RunScrape(r) ==
    /\ runs[r].pc = "scrape"
    /\ \E good \in SUBSET Range(runs[r].urls_to_scrape) :
         LET scraped_data == Usable(RunScraped(runs[r].urls_to_scrape, good))
             successful_urls == UrlsOf(scraped_data)
         IN  runs' = [runs EXCEPT
                 ![r].urls_to_scrape = <<>>,
                 ![r].all_sources = IF scraped_data = <<>> THEN @
                                    ELSE @ \o successful_urls,
                 ![r].succeeded = @ \o successful_urls,
                 ![r].pc = IF scraped_data = <<>> THEN "loop" ELSE "synth"]
    /\ UNCHANGED <<ctl_vars, fn_vars, heap>>

(* Lines 79-92: the Synthesizer has answered *)
RunSynth(r) ==
    /\ runs[r].pc = "synth"
    /\ \E a \in RunSynthAnswers :
         LET l == runs[r].all_learnings
         IN  /\ heap' = [heap EXCEPT
                    !.lists[l] = ExtendLearnings(@, a.learnings)]
             /\ runs' = [runs EXCEPT
                    ![r].final_directions = NextDirections(@, a.directions),
                    ![r].synthesized = @ \o a.learnings,
                    ![r].proposed = a.directions,
                    ![r].pc = "loop"]
    /\ UNCHANGED <<ctl_vars, fn_vars>>

(* Lines 96-98: the Report Composer has answered, the tuple is returned *)
RunReport(r) ==
    /\ runs[r].pc = "loop"
    /\ LoopDone(runs[r].i, runs[r].depth)
    /\ runs' = [runs EXCEPT
           ![r].pc = "done",
           ![r].returned = [kind |-> "tuple",
                            sources |-> Range(runs[r].all_sources),
                            learnings |-> heap.lists[runs[r].all_learnings],
                            directions |-> runs[r].final_directions]]
    /\ UNCHANGED <<ctl_vars, fn_vars, heap>>

NextRuns ==
    \E r \in Runs :
        \/ RunStart(r)
        \/ RunSearch(r)
        \/ RunScrape(r)
        \/ RunSynth(r)
        \/ RunReport(r)

SpecRuns == InitRuns /\ [][NextRuns]_vars

----------------------------------------------------------------------------
(* Properties of two interleaved runs, checked under SpecRuns *)

(* The first occurrences of the elements of s, in order *)
RECURSIVE Dedup(_)
Dedup(s) ==
    IF s = <<>> THEN <<>>
    ELSE LET d == Dedup(SubSeq(s, 1, Len(s) - 1))
         IN  IF s[Len(s)] \in Range(d) THEN d ELSE Append(d, s[Len(s)])

(* C19: each of two interleaved runs scrapes every URL its own searches
   returned, once, whatever the other run has visited; its findings are the
   caller's findings followed by what its own Synthesizer calls returned,
   its sources and directions those of its own scrapes and last synthesis;
   the list object of the caller is never changed. *)
RunsShareNothing ==
    /\ heap.lists[CallerList] = existing_learnings
    /\ \A r \in Runs :
         runs[r].pc # "start" =>
           /\ runs[r].scraped = Dedup(runs[r].searched)
           /\ heap.sets[runs[r].visited_urls] = Range(runs[r].searched)
           /\ runs[r].all_learnings # CallerList
           /\ heap.lists[runs[r].all_learnings] =
                  existing_learnings \o runs[r].synthesized
           /\ runs[r].all_sources = runs[r].succeeded
           /\ runs[r].final_directions = runs[r].proposed
           /\ runs[r].pc = "done" =>
                /\ runs[r].returned.learnings =
                       existing_learnings \o runs[r].synthesized
                /\ runs[r].returned.sources = Range(runs[r].succeeded)
                /\ runs[r].returned.directions = runs[r].proposed

(* Both runs have returned and both scraped u1; the first added a finding
   to its copy of the caller's findings, the second added none. *)
RunsShareNothingWitness ==
    /\ runs[1].pc = "done"
    /\ runs[2].pc = "done"
    /\ runs[1].scraped = <<"u1">>
    /\ runs[2].scraped = <<"u2", "u1">>
    /\ runs[1].returned.sources = {"u1"}
    /\ runs[2].returned.sources = {"u1", "u2"}
    /\ runs[1].returned.learnings = existing_learnings \o <<"f2">>
    /\ runs[2].returned.learnings = existing_learnings
    /\ existing_learnings # <<>>

----------------------------------------------------------------------------
(* Properties of what a run returns, checked under Spec *)

SucceededUrls == {e.url : e \in {x \in scrape_log : x.text}}
FailedUrls == {e.url : e \in {x \in scrape_log : ~x.text}}

Count(s, x) == Cardinality({k \in DOMAIN s : s[k] = x})

(* C21: all_sources holds only URLs whose scrape handed back text, each
   once, and all of them once the batch is collected; the returned sources
   are exactly those URLs; a URL whose scrape failed is in no source list,
   stays in visited_urls and has been passed to scrape_content once only. *)
SourcesAreTheSuccesses ==
    /\ Range(all_sources) \subseteq SucceededUrls
    /\ pc # "scrape" => Range(all_sources) = SucceededUrls
    /\ \A u \in SucceededUrls : Count(all_sources, u) <= 1
    /\ pc = "done" => returned.sources = SucceededUrls
    /\ \A u \in FailedUrls :
           /\ u \notin Range(all_sources)
           /\ u \in visited_urls
           /\ Count(scrape_calls, u) = 1
           /\ pc = "done" => u \notin returned.sources

(* In the second iteration every search has answered, and u1, whose scrape
   failed in the first, is among the answers again. *)
SourcesAreTheSuccessesWitness ==
    /\ pc = "search"
    /\ i = 2
    /\ Pending(results) = {}
    /\ "u1" \in FailedUrls
    /\ "u2" \in SucceededUrls
    /\ \E k \in DOMAIN results : "u1" \in Range(results[k].urls)

(* C23: all_learnings is the caller's existing_learnings followed by the
   learnings of each Synthesizer return in the order of the iterations,
   repeats included, and that list is what the run returns. *)
FindingsAreExistingThenSynthesized ==
    /\ all_learnings = existing_learnings \o synth_log
    /\ pc = "done" => returned.learnings = existing_learnings \o synth_log

(* A run returned a finding of the caller a second time, from a synthesis *)
FindingsAreExistingThenSynthesizedWitness ==
    /\ pc = "done"
    /\ existing_learnings = <<"f1">>
    /\ synth_log = <<"f2", "f1">>
    /\ returned.learnings = <<"f1", "f2", "f1">>

----------------------------------------------------------------------------
(* Termination of perform_deep_research, checked under SpecLive *)

Terminated == pc \in {"done", "raised"}

(* C22: when every awaited call returns or fails, a run ends, by returning
   its tuple or by raising to the caller, and it never starts more than
   depth iterations on the way. *)
RunTerminates ==
    <>[](Terminated /\ i <= depth /\ expand_calls <= depth)

(* A run of MaxDepth iterations ended by an exception of the Synthesizer in
   its last iteration. *)
RunTerminatesWitness ==
    /\ pc = "raised"
    /\ raised_from = "summarize_and_find_directions"
    /\ i = depth
    /\ depth = MaxDepth

----------------------------------------------------------------------------
(* The fan-out of an iteration, checked under Spec *)

(* C24: an iteration has at most breadth queries and search tasks, each
   search hands back at most NumResults URLs, and at most NumResults *
   breadth scrape tasks are started; after i iterations visited_urls holds
   at most NumResults * breadth * i URLs, and no more than that, and so no
   more than NumResults * breadth * depth, have been passed to
   scrape_content. *)
FanOutBounded ==
    /\ Len(search_queries) <= breadth
    /\ Len(results) <= breadth
    /\ \A k \in DOMAIN results : Len(TaskUrls(results[k])) <= NumResults
    /\ Len(urls_to_scrape) <= NumResults * breadth
    /\ Len(scraped_results) <= NumResults * breadth
    /\ Cardinality(visited_urls) <= NumResults * breadth * i
    /\ Len(scrape_calls) <= NumResults * breadth * i
    /\ Len(scrape_calls) <= NumResults * breadth * depth

(* With one query per iteration, the first iteration has started as many
   scrape tasks as the bound allows. *)
FanOutBoundedWitness ==
    /\ pc = "scrape"
    /\ breadth = 1
    /\ i = 1
    /\ Len(scraped_results) = NumResults * breadth
    /\ Cardinality(visited_urls) = NumResults * breadth * i

====
